---- MODULE Spec2Model ----
(***************************************************************************)
(* A model of skewer's SKU accessor (sku.go) and catalog adapter (wrap.go). *)
(*                                                                         *)
(* A Go string is modelled as a sequence of one-character strings, so that *)
(* parsing, lower-casing and separator stripping are computed character by *)
(* character.  A Go pointer or nilable slice field is modelled as an       *)
(* optional value: Nil, or Some(v).  Every accessor is a pure function of  *)
(* the SKU record; an action applies one accessor to the current record    *)
(* and stores the outcome in `result`.  A nil dereference is the outcome   *)
(* Panic.                                                                  *)
(***************************************************************************)
EXTENDS Integers, Sequences, FiniteSets, TLC

VARIABLES sku, other, in, call, result

vars == <<sku, other, in, call, result>>

(***************************************************************************)
(* Optional values (Go pointers and nilable slices).                       *)
(***************************************************************************)
Nil == [nil |-> TRUE]

Some(v) == [nil |-> FALSE, val |-> v]

(***************************************************************************)
(* Outcomes.                                                               *)
(***************************************************************************)
Panic == [panic |-> TRUE]

NoErr == [type |-> "nil"]

Ret(v) == [panic |-> FALSE, val |-> v]

RetErr(v, e) == [panic |-> FALSE, val |-> v, err |-> e]

(***************************************************************************)
(* Bounds of the model.                                                    *)
(***************************************************************************)
MaxCaps == 2

MaxLocInfo == 2

MaxRestrictions == 2

MaxLocations == 2

MaxWrap == 3

(***************************************************************************)
(* String literals.                                                        *)
(***************************************************************************)
VCPUs == <<"v", "C", "P", "U", "s">>

VCPUsLower == <<"v", "c", "p", "u", "s">>

MemoryGB == <<"M", "e", "m", "o", "r", "y", "G", "B">>

CapabilitySupported == <<"T", "r", "u", "e">>

CapabilityUnsupported == <<"F", "a", "l", "s", "e">>

TrueUpper == <<"T", "R", "U", "E">>

Sixteen == <<"1", "6">>

MinusThree == <<"-", "3">>

EightPointFive == <<"8", ".", "5">>

OneE3 == <<"1", "e", "3">>

OneE999 == <<"1", "e", "9", "9", "9">>

TooBig == <<"9", "2", "2", "3", "3", "7", "2", "0", "3", "6", "8", "5", "4", "7", "7", "5", "8", "0", "8">>


EmptyString == <<>>

(***************************************************************************)
(* Characters.                                                             *)
(***************************************************************************)
UpperCase == <<"A", "B", "C", "D", "E", "F", "G", "H", "I", "J", "K", "L", "M",
               "N", "O", "P", "Q", "R", "S", "T", "U", "V", "W", "X", "Y", "Z">>

LowerCase == <<"a", "b", "c", "d", "e", "f", "g", "h", "i", "j", "k", "l", "m",
               "n", "o", "p", "q", "r", "s", "t", "u", "v", "w", "x", "y", "z">>

Digits == <<"0", "1", "2", "3", "4", "5", "6", "7", "8", "9">>

Separators == {"_", "-", " "}

IsDigit(c) == \E i \in 1..10 : Digits[i] = c

DigitValue(c) == (CHOOSE i \in 1..10 : Digits[i] = c) - 1

ToLowerChar(c) ==
    IF \E i \in 1..26 : UpperCase[i] = c
    THEN LowerCase[CHOOSE i \in 1..26 : UpperCase[i] = c]
    ELSE c

(***************************************************************************)
(* Character sequences, without recursion on their length.                 *)
(***************************************************************************)
\* the least member of a set of naturals, or none for the empty set
Least(S, none) == IF S = {} THEN none ELSE CHOOSE i \in S : \A j \in S : i <= j

\* the least index of s whose element is in C, or Len(s) + 1
FirstIn(s, C) == Least({i \in 1..Len(s) : s[i] \in C}, Len(s) + 1)

\* the least index of s whose element is not in C, or Len(s) + 1
FirstNotIn(s, C) == Least({i \in 1..Len(s) : s[i] \notin C}, Len(s) + 1)

\* the greatest index of s whose element is in C, or 0
LastIn(s, C) == Len(s) - Least({Len(s) - i : i \in {j \in 1..Len(s) : s[j] \in C}}, Len(s))

\* the greatest index of s whose element is not in C, or 0
LastNotIn(s, C) ==
    Len(s) - Least({Len(s) - i : i \in {j \in 1..Len(s) : s[j] \notin C}}, Len(s))

DigitChars == {Digits[i] : i \in 1..10}

\* the elements of f as a sequence in its evaluated form
AsSeq(f) == f \o <<>>

Max2(a, b) == IF a >= b THEN a ELSE b

Zeros(n) == AsSeq([i \in 1..n |-> "0"])

Lower(s) == AsSeq([i \in 1..Len(s) |-> ToLowerChar(s[i])])

NotSeparator(c) == c \notin Separators

\* lower case, separators dropped
normalize(s) == Lower(SelectSeq(s, NotSeparator))

stringEqualsWithNormalization(a, b) == normalize(a) = normalize(b)

StripLeadingZeros(d) == SubSeq(d, FirstNotIn(d, {"0"}), Len(d))

StripTrailingZeros(d) == SubSeq(d, 1, LastNotIn(d, {"0"}))

\* the longest prefix of s made of decimal digits
DigitPrefix(s) == SubSeq(s, 1, FirstNotIn(s, DigitChars) - 1)

(***************************************************************************)
(* strconv.ParseInt(s, 10, 64).                                            *)
(***************************************************************************)
MaxUint64Digits == <<"1", "8", "4", "4", "6", "7", "4", "4", "0", "7", "3", "7", "0", "9", "5", "5", "1", "6", "1", "5">>

MaxInt64Digits == <<"9", "2", "2", "3", "3", "7", "2", "0", "3", "6", "8", "5", "4", "7", "7", "5", "8", "0", "7">>

Int64CutoffDigits == <<"9", "2", "2", "3", "3", "7", "2", "0", "3", "6", "8", "5", "4", "7", "7", "5", "8", "0", "8">>

RECURSIVE LexGreater(_, _)
LexGreater(a, b) ==
    IF a = <<>> THEN FALSE
    ELSE IF DigitValue(Head(a)) # DigitValue(Head(b))
         THEN DigitValue(Head(a)) > DigitValue(Head(b))
         ELSE LexGreater(Tail(a), Tail(b))

\* a > b for two digit strings read as unbounded naturals
DigitsGreater(a, b) ==
    LET x == StripLeadingZeros(a)
        y == StripLeadingZeros(b)
    IN  IF Len(x) # Len(y) THEN Len(x) > Len(y) ELSE LexGreater(x, y)

\* An int64 is kept as its sign and its decimal digits without leading
\* zeros; zero has no digits and no sign.
Int64(neg, digits) ==
    LET d == StripLeadingZeros(digits) IN [neg |-> neg /\ d # <<>>, digits |-> d]

\* mutant: strictly greater
Int64Greater(a, b) ==
    IF a.neg # b.neg THEN b.neg
    ELSE IF a.neg THEN DigitsGreater(b.digits, a.digits)
    ELSE DigitsGreater(a.digits, b.digits)

\* a >= b
Int64GE(a, b) ==
    IF a.neg # b.neg THEN b.neg
    ELSE IF a.neg THEN ~DigitsGreater(a.digits, b.digits)
    ELSE ~DigitsGreater(b.digits, a.digits)

NumError(fn, s, e) == [Func |-> fn, Num |-> s, Err |-> e]

ParseInt(s) ==
    IF s = <<>> THEN [ok |-> FALSE, err |-> NumError("ParseInt", s, "ErrSyntax")]
    ELSE
      LET neg == s[1] = "-"
          rest == IF s[1] \in {"+", "-"} THEN Tail(s) ELSE s
          pre == DigitPrefix(rest)
      IN  IF rest = <<>>
          THEN [ok |-> FALSE, err |-> NumError("ParseInt", s, "ErrSyntax")]
          ELSE IF DigitsGreater(pre, MaxUint64Digits)
          THEN [ok |-> FALSE, err |-> NumError("ParseInt", s, "ErrRange")]
          ELSE IF Len(pre) < Len(rest)
          THEN [ok |-> FALSE, err |-> NumError("ParseInt", s, "ErrSyntax")]
          ELSE IF (~neg /\ DigitsGreater(pre, MaxInt64Digits))
                  \/ (neg /\ DigitsGreater(pre, Int64CutoffDigits))
          THEN [ok |-> FALSE, err |-> NumError("ParseInt", s, "ErrRange")]
          ELSE [ok |-> TRUE, val |-> Int64(neg, pre)]

(***************************************************************************)
(* Naturals of any size: little-endian sequences of limbs below LimbBase,  *)
(* the top limb not zero.  Doubling and halving carry over one limb only.  *)
(***************************************************************************)
LimbBase == 10^8

\* decimal digit p (from the right, from 0) of the digit string ds
DigitAt(ds, p) == IF p < Len(ds) THEN DigitValue(ds[Len(ds) - p]) ELSE 0

BigFromDigits(digits) ==
    LET ds == StripLeadingZeros(digits) IN
    AsSeq([j \in 1..((Len(ds) + 7) \div 8) |->
        LET p == 8 * (j - 1) IN
        DigitAt(ds, p) + 10 * DigitAt(ds, p + 1) + 100 * DigitAt(ds, p + 2)
        + 1000 * DigitAt(ds, p + 3) + 10000 * DigitAt(ds, p + 4)
        + 100000 * DigitAt(ds, p + 5) + 1000000 * DigitAt(ds, p + 6)
        + 10000000 * DigitAt(ds, p + 7)])

BigToDigits(x) ==
    StripLeadingZeros(
        [i \in 1..(8 * Len(x)) |->
            LET p == 8 * Len(x) - i IN
            Digits[((x[(p \div 8) + 1] \div (10 ^ (p % 8))) % 10) + 1]])

\* 2 * x + b for a bit b
BigDoublePlus(x, b) ==
    LET n == Len(x) IN
    IF n = 0 THEN AsSeq([i \in 1..b |-> 1])
    ELSE AsSeq([i \in 1..(n + (IF 2 * x[n] >= LimbBase THEN 1 ELSE 0)) |->
            ((IF i <= n THEN 2 * x[i] ELSE 0)
             + (IF i = 1 THEN b ELSE IF 2 * x[i - 1] >= LimbBase THEN 1 ELSE 0)) % LimbBase])

BigDouble(x) == BigDoublePlus(x, 0)

\* x \div 2
BigHalve(x) ==
    LET n == Len(x) IN
    IF n = 0 THEN <<>>
    ELSE AsSeq([i \in 1..(n - (IF x[n] <= 1 THEN 1 ELSE 0)) |->
            (x[i] + (IF i < n /\ x[i + 1] % 2 = 1 THEN LimbBase ELSE 0)) \div 2])

BigGE(x, y) ==
    IF Len(x) # Len(y) THEN Len(x) > Len(y)
    ELSE \/ x = y
         \/ \E i \in 1..Len(x) : x[i] > y[i] /\ \A j \in (i + 1)..Len(x) : x[j] = y[j]

Limb(x, i) == IF i <= Len(x) THEN x[i] ELSE 0

\* x + y: limb j takes a carry when a lower limb overflows and every limb
\* between passes the carry on
BigAdd(x, y) ==
    LET n == Max2(Len(x), Len(y)) + 1
        sum == AsSeq([j \in 1..n |->
                   (Limb(x, j) + Limb(y, j)
                    + (IF \E i \in 1..(j - 1) :
                             /\ Limb(x, i) + Limb(y, i) >= LimbBase
                             /\ \A l \in (i + 1)..(j - 1) : Limb(x, l) + Limb(y, l) = LimbBase - 1
                       THEN 1 ELSE 0)) % LimbBase])
    IN  SubSeq(sum, 1, LastNotIn(sum, {0}))

\* x - y, for x >= y: limb j lends when a lower limb falls short and every
\* limb between is level
BigSub(x, y) ==
    LET diff == AsSeq([j \in 1..Len(x) |->
                   (x[j] - Limb(y, j) + LimbBase
                    - (IF \E i \in 1..(j - 1) :
                             /\ x[i] < Limb(y, i)
                             /\ \A l \in (i + 1)..(j - 1) : x[l] = Limb(y, l)
                       THEN 1 ELSE 0)) % LimbBase])
    IN  SubSeq(diff, 1, LastNotIn(diff, {0}))

\* x * 2^k
RECURSIVE BigShiftLeft(_, _)
BigShiftLeft(x, k) ==
    IF k = 0 \/ x = <<>> THEN x
    ELSE IF k = 1 THEN BigDouble(x)
    ELSE BigShiftLeft(BigShiftLeft(x, k \div 2), k - k \div 2)

\* x \div 2^k
RECURSIVE BigShiftRight(_, _)
BigShiftRight(x, k) ==
    IF k = 0 \/ x = <<>> THEN x
    ELSE IF k = 1 THEN BigHalve(x)
    ELSE BigShiftRight(BigShiftRight(x, k \div 2), k - k \div 2)

\* the n bits of r \div (top \div 2^(n-1)), most significant first, and
\* the remainder scaled by 2^n; r < 2 * top
RECURSIVE DivBits(_, _, _)
DivBits(r, top, n) ==
    IF n = 0 THEN [bits |-> <<>>, rem |-> r]
    ELSE IF n = 1
    THEN IF BigGE(r, top) THEN [bits |-> <<1>>, rem |-> BigDouble(BigSub(r, top))]
                          ELSE [bits |-> <<0>>, rem |-> BigDouble(r)]
    ELSE LET high == DivBits(r, top, n \div 2)
             low == DivBits(high.rem, top, n - n \div 2)
         IN  [bits |-> high.bits \o low.bits, rem |-> low.rem]

RECURSIVE BitsToBig(_)
BitsToBig(bits) ==
    IF bits = <<>> THEN <<>>
    ELSE IF Len(bits) = 1 THEN AsSeq([i \in 1..bits[1] |-> 1])
    ELSE LET h == Len(bits) \div 2 IN
         BigAdd(BigShiftLeft(BitsToBig(SubSeq(bits, 1, h)), Len(bits) - h),
                BitsToBig(SubSeq(bits, h + 1, Len(bits))))

(***************************************************************************)
(* float64: rounding to 53 bits, nearest even, and the value as its exact  *)
(* decimal expansion.                                                      *)
(***************************************************************************)
MantBits == 53

MinExp == -1074

MaxBinaryExp == 1024

BitsInc(b) ==
    LET p == LastIn(b, {0}) IN
    IF p = 0 THEN <<1>> \o [i \in 1..Len(b) |-> 0]
    ELSE AsSeq([i \in 1..Len(b) |-> IF i < p THEN b[i] ELSE IF i = p THEN 1 ELSE 0])

\* (sig + a fraction below one if sticky) * 2^exp rounded to a float64
\* mantissa: sig is a bit string, most significant first, no leading zero
RoundBits(sig, sticky, exp) ==
    LET L == Len(sig)
        t == Max2(Max2(L - MantBits, MinExp - exp), 0)
        keptLen == IF t >= L THEN 0 ELSE L - t
        kept == SubSeq(sig, 1, keptLen)
        roundBit == IF t >= 1 /\ t <= L THEN sig[L - t + 1] ELSE 0
        low == sticky \/ \E i \in Max2(L - t + 2, 1)..L : sig[i] = 1
        odd == keptLen > 0 /\ kept[keptLen] = 1
    IN  [mant |-> IF roundBit = 1 /\ (low \/ odd) THEN BitsInc(kept) ELSE kept,
         exp |-> exp + t]

\* A float64 is kept as its exact decimal expansion: sign, integer digits
\* without leading zeros, fraction digits without trailing zeros.
Decimal(neg, ip, fp) ==
    [neg |-> neg, int |-> StripLeadingZeros(ip), frac |-> StripTrailingZeros(fp)]

Inf(neg) == [neg |-> neg, int |-> <<"I", "n", "f">>, frac |-> <<>>]

NaN == [neg |-> FALSE, int |-> <<"N", "a", "N">>, frac |-> <<>>]

\* mant * 2^exp as a decimal expansion
Expand(neg, mant, exp) ==
    LET m == BitsToBig(mant) IN
    IF exp >= 0 THEN Decimal(neg, BigToDigits(BigShiftLeft(m, exp)), <<>>)
    ELSE LET k == 0 - exp
             scaled == BigToDigits(BigShiftRight(BigFromDigits(BigToDigits(m) \o Zeros(k)), k))
             all == Zeros(k - Len(scaled)) \o scaled
         IN  Decimal(neg, SubSeq(all, 1, Len(all) - k), SubSeq(all, Len(all) - k + 1, Len(all)))

\* the float64 of a rounded mantissa, or the range error of an overflow
Float64(s, neg, r) ==
    IF r.mant = <<>> THEN [ok |-> TRUE, val |-> Decimal(neg, <<>>, <<>>)]
    ELSE IF Len(r.mant) + r.exp > MaxBinaryExp
    THEN [ok |-> FALSE, val |-> Inf(neg), err |-> NumError("ParseFloat", s, "ErrRange")]
    ELSE [ok |-> TRUE, val |-> Expand(neg, r.mant, r.exp)]

\* digits * 10^p10 rounded to float64
DecimalToFloat(s, neg, digits, p10) ==
    LET sd == StripLeadingZeros(digits)
        x == Len(sd) - 1 + p10
    IN  IF sd = <<>> \/ x < 0 - 331 THEN [ok |-> TRUE, val |-> Decimal(neg, <<>>, <<>>)]
        ELSE IF x >= 310
        THEN [ok |-> FALSE, val |-> Inf(neg), err |-> NumError("ParseFloat", s, "ErrRange")]
        ELSE IF p10 >= 0 /\ x < 15
        THEN \* an integer of at most 15 digits is a float64 as it stands
             [ok |-> TRUE, val |-> Decimal(neg, sd \o Zeros(p10), <<>>)]
        ELSE LET num == BigFromDigits(IF p10 >= 0 THEN sd \o Zeros(p10) ELSE sd)
                 den == BigFromDigits(<<"1">> \o Zeros(IF p10 < 0 THEN 0 - p10 ELSE 0))
                 \* 2^k0 <= value < 2^(k0 + 6)
                 k0 == IF x >= 0 THEN (x * 3321) \div 1000 ELSE (x * 3322) \div 1000
                 sh == Max2(k0 - MantBits - 1, MinExp - 1)
                 a == BigShiftLeft(num, Max2(0 - sh, 0))
                 b == BigShiftLeft(den, Max2(sh, 0))
                 q == DivBits(a, BigShiftLeft(b, 61), 62)
             IN  Float64(s, neg, RoundBits(SubSeq(q.bits, FirstNotIn(q.bits, {0}), 62),
                                           q.rem # <<>>, sh))

(***************************************************************************)
(* strconv.ParseFloat(s, 64).                                              *)
(***************************************************************************)
HexDigits == <<"0", "1", "2", "3", "4", "5", "6", "7", "8", "9", "a", "b", "c", "d", "e", "f">>

IsHexDigit(c) == \E i \in 1..16 : HexDigits[i] = ToLowerChar(c)

HexValue(c) == (CHOOSE i \in 1..16 : HexDigits[i] = ToLowerChar(c)) - 1

HexDigitChars == {HexDigits[i] : i \in 1..16} \cup {"A", "B", "C", "D", "E", "F"}

RECURSIVE DigitsToInt(_)
DigitsToInt(d) ==
    IF d = <<>> THEN 0
    ELSE 10 * DigitsToInt(SubSeq(d, 1, Len(d) - 1)) + DigitValue(d[Len(d)])

\* the exponent digits accumulate while the exponent is below 10000
ExponentValue(digits) ==
    LET d == StripLeadingZeros(digits) IN
    DigitsToInt(SubSeq(d, 1, IF Len(d) < 5 THEN Len(d) ELSE 5))

\* the text after the exponent character: [+-] digit (digit | _)*
ReadExponent(t) ==
    LET u == IF t # <<>> /\ t[1] \in {"+", "-"} THEN Tail(t) ELSE t IN
    IF u = <<>> \/ ~IsDigit(u[1]) \/ FirstNotIn(u, DigitChars \cup {"_"}) <= Len(u)
    THEN [ok |-> FALSE]
    ELSE [ok |-> TRUE,
          exp |-> (IF t[1] = "-" THEN 0 - 1 ELSE 1) * ExponentValue(SelectSeq(u, IsDigit))]

\* the end of the mantissa: before the first character that is no mantissa
\* character and before a second point
MantissaEnd(text, hex) ==
    LET bad == FirstNotIn(text, (IF hex THEN HexDigitChars ELSE DigitChars) \cup {"_", "."})
        dot == FirstIn(text, {"."})
        dot2 == dot + FirstIn(SubSeq(text, dot + 1, Len(text)), {"."})
    IN  (IF bad < dot2 THEN bad ELSE dot2) - 1

\* every underscore stands between two digits (or after the base prefix)
UnderscoreOK(body, hex) ==
    \A i \in 1..Len(body) :
        body[i] = "_" =>
            /\ i < Len(body)
            /\ IF hex THEN IsHexDigit(body[i + 1]) ELSE IsDigit(body[i + 1])
            /\ IF hex THEN i = 3 \/ (i > 3 /\ IsHexDigit(body[i - 1]))
                      ELSE i > 1 /\ IsDigit(body[i - 1])

\* readFloat on the text after the sign (and after the 0x prefix when hex):
\* the digits before and after the point, and the exponent
ReadFloat(body, hex) ==
    LET text == IF hex THEN SubSeq(body, 3, Len(body)) ELSE body
        mEnd == MantissaEnd(text, hex)
        dot == FirstIn(SubSeq(text, 1, mEnd), {"."})
        ip == IF hex THEN SelectSeq(SubSeq(text, 1, dot - 1), IsHexDigit)
                     ELSE SelectSeq(SubSeq(text, 1, dot - 1), IsDigit)
        fp == IF hex THEN SelectSeq(SubSeq(text, dot + 1, mEnd), IsHexDigit)
                     ELSE SelectSeq(SubSeq(text, dot + 1, mEnd), IsDigit)
        rest == SubSeq(text, mEnd + 1, Len(text))
        e == IF rest = <<>> THEN [ok |-> ~hex, exp |-> 0]
             ELSE IF ToLowerChar(rest[1]) = (IF hex THEN "p" ELSE "e")
             THEN ReadExponent(Tail(rest))
             ELSE [ok |-> FALSE]
    IN  IF ip \o fp = <<>> \/ ~e.ok \/ ~UnderscoreOK(body, hex) THEN [ok |-> FALSE]
        ELSE [ok |-> TRUE, int |-> ip, frac |-> fp, exp |-> e.exp]

HexBits(hd) ==
    AsSeq([i \in 1..(4 * Len(hd)) |->
        (HexValue(hd[((i - 1) \div 4) + 1]) \div (2 ^ (3 - ((i - 1) % 4)))) % 2])

ParseFloat(s) ==
    IF s = <<>> THEN [ok |-> FALSE, err |-> NumError("ParseFloat", s, "ErrSyntax")]
    ELSE
      LET neg == s[1] = "-"
          body == IF s[1] \in {"+", "-"} THEN Tail(s) ELSE s
          hex == Len(body) > 2 /\ body[1] = "0" /\ ToLowerChar(body[2]) = "x"
          r == ReadFloat(body, hex)
      IN  IF Lower(body) \in {<<"i", "n", "f">>, <<"i", "n", "f", "i", "n", "i", "t", "y">>}
          THEN [ok |-> TRUE, val |-> Inf(neg)]
          ELSE IF Lower(s) = <<"n", "a", "n">> THEN [ok |-> TRUE, val |-> NaN]
          ELSE IF ~r.ok THEN [ok |-> FALSE, err |-> NumError("ParseFloat", s, "ErrSyntax")]
          ELSE IF hex
          THEN LET bits == HexBits(r.int \o r.frac) IN
               Float64(s, neg, RoundBits(SubSeq(bits, FirstNotIn(bits, {0}), Len(bits)),
                                         FALSE, r.exp - 4 * Len(r.frac)))
          ELSE DecimalToFloat(s, neg, r.int \o r.frac, r.exp - Len(r.frac))

(***************************************************************************)
(* Error values.                                                           *)
(***************************************************************************)
ErrCapabilityNotFound(name) == [type |-> "ErrCapabilityNotFound", capability |-> name]

ErrCapabilityValueNil(name) == [type |-> "ErrCapabilityValueNil", capability |-> name]

ErrCapabilityValueParse(name, value, err) ==
    [type |-> "ErrCapabilityValueParse", capability |-> name, value |-> value, err |-> err]

Wrapf(err, value) == [type |-> "Wrapf", cause |-> err, value |-> value]

(***************************************************************************)
(* Capability accessors.  Each Scan operator is the body of the accessor's *)
(* range loop from entry i on.                                             *)
(***************************************************************************)
MinusOneInt64 == Int64(TRUE, <<"1">>)

RECURSIVE ScanIntegerQuantity(_, _, _)
ScanIntegerQuantity(caps, name, i) ==
    IF i > Len(caps) THEN RetErr(MinusOneInt64, ErrCapabilityNotFound(name))
    ELSE LET capability == caps[i] IN
         IF ~capability.Name.nil /\ capability.Name.val = name
         THEN IF ~capability.Value.nil
              THEN LET p == ParseInt(capability.Value.val) IN
                   IF ~p.ok
                   THEN RetErr(MinusOneInt64, ErrCapabilityValueParse(name, capability.Value.val, p.err))
                   ELSE RetErr(p.val, NoErr)
              ELSE RetErr(MinusOneInt64, ErrCapabilityValueNil(name))
         ELSE ScanIntegerQuantity(caps, name, i + 1)

RECURSIVE Reverse(_)
Reverse(q) == IF q = <<>> THEN <<>> ELSE Reverse(Tail(q)) \o <<Head(q)>>

\* mutant: the last matching entry decides
GetCapabilityIntegerQuantity_LastMatch(s, name) ==
    IF s.Capabilities.nil THEN RetErr(MinusOneInt64, ErrCapabilityNotFound(name))
    ELSE ScanIntegerQuantity(Reverse(s.Capabilities.val), name, 1)

GetCapabilityIntegerQuantity(s, name) ==
    IF s.Capabilities.nil THEN RetErr(MinusOneInt64, ErrCapabilityNotFound(name))
    ELSE ScanIntegerQuantity(s.Capabilities.val, name, 1)

MinusOne == Decimal(TRUE, <<"1">>, <<>>)

RECURSIVE ScanFloatQuantity(_, _, _)
ScanFloatQuantity(caps, name, i) ==
    IF i > Len(caps) THEN RetErr(MinusOne, ErrCapabilityNotFound(name))
    ELSE LET capability == caps[i] IN
         IF ~capability.Name.nil /\ capability.Name.val = name
         THEN IF ~capability.Value.nil
              THEN LET p == ParseFloat(capability.Value.val) IN
                   IF ~p.ok
                   THEN RetErr(MinusOne, ErrCapabilityValueParse(name, capability.Value.val, p.err))
                   ELSE RetErr(p.val, NoErr)
              ELSE RetErr(MinusOne, ErrCapabilityValueNil(name))
         ELSE ScanFloatQuantity(caps, name, i + 1)

GetCapabilityFloatQuantity(s, name) ==
    IF s.Capabilities.nil THEN RetErr(MinusOne, ErrCapabilityNotFound(name))
    ELSE ScanFloatQuantity(s.Capabilities.val, name, 1)

RECURSIVE ScanHasCapability(_, _, _)
ScanHasCapability(caps, name, i) ==
    IF i > Len(caps) THEN Ret(FALSE)
    ELSE LET capability == caps[i] IN
         IF ~capability.Name.nil /\ stringEqualsWithNormalization(capability.Name.val, name)
         THEN Ret(~capability.Value.nil
                  /\ stringEqualsWithNormalization(capability.Value.val, CapabilitySupported))
         ELSE ScanHasCapability(caps, name, i + 1)

\* mutant: any matching entry with a supported value decides
HasCapability_AnyMatch(s, name) ==
    Ret(~s.Capabilities.nil
        /\ \E i \in 1..Len(s.Capabilities.val) :
              LET capability == s.Capabilities.val[i] IN
              /\ ~capability.Name.nil
              /\ stringEqualsWithNormalization(capability.Name.val, name)
              /\ ~capability.Value.nil
              /\ stringEqualsWithNormalization(capability.Value.val, CapabilitySupported))

HasCapability(s, name) ==
    IF s.Capabilities.nil THEN Ret(FALSE)
    ELSE ScanHasCapability(s.Capabilities.val, name, 1)

RECURSIVE ScanHasCapabilityWithCapacity(_, _, _, _)
ScanHasCapabilityWithCapacity(caps, name, value, i) ==
    IF i > Len(caps) THEN RetErr(FALSE, NoErr)
    ELSE LET capability == caps[i] IN
         IF ~capability.Name.nil /\ stringEqualsWithNormalization(capability.Name.val, name)
         THEN IF ~capability.Value.nil
              THEN LET p == ParseInt(capability.Value.val) IN
                   IF ~p.ok THEN RetErr(FALSE, Wrapf(p.err, capability.Value.val))
                   ELSE IF Int64GE(p.val, value) THEN RetErr(TRUE, NoErr)
                   ELSE RetErr(FALSE, NoErr)
              ELSE RetErr(FALSE, NoErr)
         ELSE ScanHasCapabilityWithCapacity(caps, name, value, i + 1)

HasCapabilityWithCapacity(s, name, value) ==
    IF s.Capabilities.nil THEN RetErr(FALSE, NoErr)
    ELSE ScanHasCapabilityWithCapacity(s.Capabilities.val, name, value, 1)

(***************************************************************************)
(* Location, restriction and identity accessors.                           *)
(***************************************************************************)
Location == "Location"

Zone == "Zone"

Range(f) == {f[i] : i \in DOMAIN f}

\* mutant: the loop looks for the wrong restriction type
AnyLocationRestriction_WrongType(rs, j) == \E k \in j..Len(rs) : rs[k].Type = Zone

\* the inner loop of IsAvailable over the restrictions, from entry j on
RECURSIVE AnyLocationRestriction(_, _)
AnyLocationRestriction(rs, j) ==
    IF j > Len(rs) THEN FALSE
    ELSE IF rs[j].Type = Location THEN TRUE
    ELSE AnyLocationRestriction(rs, j + 1)

RECURSIVE ScanIsAvailable(_, _, _)
ScanIsAvailable(s, location, i) ==
    IF i > Len(s.LocationInfo.val) THEN Ret(FALSE)
    ELSE LET locationInfo == s.LocationInfo.val[i] IN
         IF locationInfo.Location.nil THEN Panic
         ELSE IF stringEqualsWithNormalization(locationInfo.Location.val, location)
         THEN IF ~s.Restrictions.nil /\ AnyLocationRestriction(s.Restrictions.val, 1)
              THEN Ret(FALSE)
              ELSE Ret(TRUE)
         ELSE ScanIsAvailable(s, location, i + 1)

IsAvailable(s, location) ==
    IF s.LocationInfo.nil THEN Ret(FALSE)
    ELSE ScanIsAvailable(s, location, 1)

\* the inner loop of IsRestricted over one restriction's values
RECURSIVE CandidateRestricts(_, _, _)
CandidateRestricts(restriction, location, k) ==
    IF k > Len(restriction.Values.val) THEN FALSE
    ELSE IF stringEqualsWithNormalization(restriction.Values.val[k], location)
            /\ restriction.Type = Location
    THEN TRUE
    ELSE CandidateRestricts(restriction, location, k + 1)

RECURSIVE ScanIsRestricted(_, _, _)
ScanIsRestricted(rs, location, j) ==
    IF j > Len(rs) THEN Ret(FALSE)
    ELSE IF rs[j].Values.nil THEN ScanIsRestricted(rs, location, j + 1)
    ELSE IF CandidateRestricts(rs[j], location, 1) THEN Ret(TRUE)
    ELSE ScanIsRestricted(rs, location, j + 1)

IsRestricted(s, location) ==
    IF s.Restrictions.nil THEN Ret(FALSE)
    ELSE ScanIsRestricted(s.Restrictions.val, location, 1)

IsResourceType(s, t) ==
    Ret(~s.ResourceType.nil /\ stringEqualsWithNormalization(s.ResourceType.val, t))

GetResourceType(s) == IF s.ResourceType.nil THEN EmptyString ELSE s.ResourceType.val

GetName(s) == IF s.Name.nil THEN EmptyString ELSE s.Name.val

GetLocation(s) ==
    IF s.Locations.nil THEN RetErr(EmptyString, [type |-> "ErrSKULocationNil"])
    ELSE IF Len(s.Locations.val) < 1 THEN RetErr(EmptyString, [type |-> "ErrNoSKULocations"])
    ELSE IF Len(s.Locations.val) > 1 THEN RetErr(EmptyString, [type |-> "ErrMultipleSKULocations"])
    ELSE RetErr(s.Locations.val[1], NoErr)

\* Loop outcomes of AvailabilityZones: go on with the restricted zones so
\* far, return nil, or panic.
GoOn(restrictedZones) == [kind |-> "continue", restrictedZones |-> restrictedZones]

ReturnNil == [kind |-> "return"]

LoopPanic == [kind |-> "panic"]

RECURSIVE ScanCandidates(_, _, _, _)
ScanCandidates(restriction, location, k, restrictedZones) ==
    IF k > Len(restriction.Values.val) THEN GoOn(restrictedZones)
    ELSE IF stringEqualsWithNormalization(restriction.Values.val[k], location)
    THEN IF restriction.Type = Location THEN ReturnNil
         ELSE IF restriction.RestrictionInfo.nil THEN LoopPanic
         ELSE IF ~restriction.RestrictionInfo.val.Zones.nil
         THEN ScanCandidates(restriction, location, k + 1,
                             restrictedZones \cup Range(restriction.RestrictionInfo.val.Zones.val))
         ELSE ScanCandidates(restriction, location, k + 1, restrictedZones)
    ELSE ScanCandidates(restriction, location, k + 1, restrictedZones)

RECURSIVE ScanRestrictions(_, _, _, _)
ScanRestrictions(rs, location, j, restrictedZones) ==
    IF j > Len(rs) THEN GoOn(restrictedZones)
    ELSE IF rs[j].Values.nil THEN ScanRestrictions(rs, location, j + 1, restrictedZones)
    ELSE LET r == ScanCandidates(rs[j], location, 1, restrictedZones) IN
         IF r.kind # "continue" THEN r
         ELSE ScanRestrictions(rs, location, j + 1, r.restrictedZones)

RECURSIVE ScanAvailabilityZones(_, _, _, _, _)
ScanAvailabilityZones(s, location, i, availableZones, restrictedZones) ==
    IF i > Len(s.LocationInfo.val) THEN Ret(Some(availableZones \ restrictedZones))
    ELSE LET locationInfo == s.LocationInfo.val[i] IN
         IF locationInfo.Location.nil THEN Panic
         ELSE IF stringEqualsWithNormalization(locationInfo.Location.val, location)
         THEN IF locationInfo.Zones.nil THEN Panic
              ELSE LET r == IF s.Restrictions.nil THEN GoOn(restrictedZones)
                            ELSE ScanRestrictions(s.Restrictions.val, location, 1, restrictedZones)
                   IN  IF r.kind = "panic" THEN Panic
                       ELSE IF r.kind = "return" THEN Ret(Nil)
                       ELSE ScanAvailabilityZones(s, location, i + 1,
                                availableZones \cup Range(locationInfo.Zones.val),
                                r.restrictedZones)
         ELSE ScanAvailabilityZones(s, location, i + 1, availableZones, restrictedZones)

AvailabilityZones(s, location) ==
    IF s.LocationInfo.nil THEN Panic
    ELSE ScanAvailabilityZones(s, location, 1, {}, {})

Equal(s, o) ==
    LET loc == GetLocation(s)
        otherLoc == GetLocation(s)
    IN  Ret(stringEqualsWithNormalization(GetResourceType(s), GetResourceType(o))
            /\ stringEqualsWithNormalization(GetName(s), GetName(o))
            /\ stringEqualsWithNormalization(loc.val, otherLoc.val)
            /\ loc.err # NoErr
            /\ otherLoc.err # NoErr)

(***************************************************************************)
(* Catalog adapter.                                                        *)
(***************************************************************************)
\* the conversion SKU(value): a field-by-field copy of the raw record
SKU(value) ==
    [Name |-> value.Name, ResourceType |-> value.ResourceType,
     Locations |-> value.Locations, Capabilities |-> value.Capabilities,
     LocationInfo |-> value.LocationInfo, Restrictions |-> value.Restrictions]

\* the loop of Wrap: out[index] = SKU(value) for the entries from index on
RECURSIVE WrapFrom(_, _, _)
WrapFrom(input, out, index) ==
    IF index > Len(input) THEN out
    ELSE WrapFrom(input, [out EXCEPT ![index] = SKU(input[index])], index + 1)

ZeroSKU ==
    [Name |-> Nil, ResourceType |-> Nil, Locations |-> Nil, Capabilities |-> Nil,
     LocationInfo |-> Nil, Restrictions |-> Nil]

\* mutant: the loop starts one entry late
Wrap_SkipFirst(input) == WrapFrom(input, [i \in 1..Len(input) |-> ZeroSKU], 2)

Wrap(input) == WrapFrom(input, [i \in 1..Len(input) |-> ZeroSKU], 1)

(***************************************************************************)
(* Inputs: the records and arguments the accessors are applied to.         *)
(***************************************************************************)
SeqsUpTo(S, n) == UNION {[1..k -> S] : k \in 0..n}

Opt(S) == {Nil} \cup {Some(v) : v \in S}

CapabilityNames == {VCPUs, VCPUsLower, MemoryGB}

CapabilityValues ==
    {Sixteen, MinusThree, EightPointFive, OneE3, OneE999, CapabilitySupported,
     TrueUpper, CapabilityUnsupported, TooBig}

Thresholds == {Int64(FALSE, Sixteen), Int64(FALSE, <<"1", "7">>)}

\* Entries named vCPUs in either spelling carry every value, the other
\* entries a few.
CapabilityEntries ==
    [Name : {Some(VCPUs), Some(VCPUsLower)}, Value : Opt(CapabilityValues)]
    \cup [Name : {Some(MemoryGB), Nil},
          Value : {Nil, Some(Sixteen), Some(CapabilitySupported)}]

EastUS == <<"e", "a", "s", "t", "u", "s">>

EastUSDisplay == <<"E", "a", "s", "t", " ", "U", "S">>

WestUS == <<"w", "e", "s", "t", "u", "s">>

StoredLocations == {EastUS, WestUS}

QueryLocations == {EastUSDisplay, WestUS}

ZoneLists == {<<"1", "2">>, <<"2">>}

\* No accessor reads the zones of an entry whose location is nil.
LocationInfoEntries ==
    [Location : {Nil}, Zones : {Nil}]
    \cup [Location : {Some(l) : l \in StoredLocations}, Zones : Opt(ZoneLists)]

RestrictionInfos == [Zones : Opt({<<"1">>})]

\* No accessor reads the restriction info of a Location restriction, and a
\* restriction without values is skipped whatever its type.  A list of two
\* values has the second one match where the first does not.
RestrictionEntries ==
    [Type : {Location}, Values : Opt({<<EastUS>>, <<WestUS, EastUS>>}),
     RestrictionInfo : {Nil}]
    \cup {[Type |-> Zone, Values |-> Some(<<EastUS>>), RestrictionInfo |-> Nil],
          [Type |-> Zone, Values |-> Some(<<EastUS>>),
           RestrictionInfo |-> Some([Zones |-> Nil])],
          [Type |-> Zone, Values |-> Some(<<WestUS, EastUS>>),
           RestrictionInfo |-> Some([Zones |-> Some(<<"1">>)])]}

VirtualMachines == <<"v", "i", "r", "t", "u", "a", "l", "M", "a", "c", "h", "i", "n", "e", "s">>

Disks == <<"d", "i", "s", "k", "s">>

StandardD2 == <<"S", "t", "a", "n", "d", "a", "r", "d", "_", "D", "2">>

StandardD2Lower == <<"s", "t", "a", "n", "d", "a", "r", "d", "d", "2">>

StandardD4 == <<"S", "t", "a", "n", "d", "a", "r", "d", "_", "D", "4">>

ResourceTypes == {VirtualMachines, Disks}

SkuNames == {StandardD2, StandardD2Lower, StandardD4}

CapabilitySKUs ==
    {[ZeroSKU EXCEPT !.Capabilities = c] : c \in Opt(SeqsUpTo(CapabilityEntries, MaxCaps))}

LocationSKUs ==
    {[ZeroSKU EXCEPT !.LocationInfo = li, !.Restrictions = rs] :
        li \in Opt(SeqsUpTo(LocationInfoEntries, MaxLocInfo)),
        rs \in Opt(SeqsUpTo(RestrictionEntries, MaxRestrictions))}

IdentitySKUs ==
    {[ZeroSKU EXCEPT !.ResourceType = t, !.Name = n, !.Locations = ls] :
        t \in Opt(ResourceTypes), n \in Opt(SkuNames),
        ls \in Opt(SeqsUpTo(StoredLocations, MaxLocations))}

RawRecords ==
    {ZeroSKU,
     [ZeroSKU EXCEPT !.Name = Some(StandardD2), !.ResourceType = Some(VirtualMachines),
                     !.Locations = Some(<<EastUS>>),
                     !.Capabilities = Some(<<[Name |-> Some(VCPUs), Value |-> Some(Sixteen)]>>)],
     [ZeroSKU EXCEPT !.Name = Some(StandardD4), !.Locations = Some(<<EastUS, WestUS>>),
                     !.LocationInfo = Some(<<[Location |-> Some(EastUS), Zones |-> Nil]>>)],
     [ZeroSKU EXCEPT !.ResourceType = Some(Disks), !.Capabilities = Some(<<>>),
                     !.Restrictions = Some(<<[Type |-> Location, Values |-> Nil,
                                              RestrictionInfo |-> Nil]>>)]}

NoCall == [op |-> "none"]

NoResult == [panic |-> FALSE]

(***************************************************************************)
(* Actions: the caller, when idle, calls one accessor on the current record *)
(* and holds its outcome; Return hands the outcome over and the caller is  *)
(* idle again.  No accessor writes to the record.                          *)
(***************************************************************************)
CallGetCapabilityIntegerQuantity ==
    \E name \in CapabilityNames :
        /\ call = NoCall
        /\ call' = [op |-> "GetCapabilityIntegerQuantity", name |-> name]
        /\ result' = GetCapabilityIntegerQuantity(sku, name)
        /\ UNCHANGED <<sku, other, in>>

CallGetCapabilityFloatQuantity ==
    \E name \in CapabilityNames :
        /\ call = NoCall
        /\ call' = [op |-> "GetCapabilityFloatQuantity", name |-> name]
        /\ result' = GetCapabilityFloatQuantity(sku, name)
        /\ UNCHANGED <<sku, other, in>>

CallHasCapability ==
    \E name \in CapabilityNames :
        /\ call = NoCall
        /\ call' = [op |-> "HasCapability", name |-> name]
        /\ result' = HasCapability(sku, name)
        /\ UNCHANGED <<sku, other, in>>

CallHasCapabilityWithCapacity ==
    \E name \in CapabilityNames, value \in Thresholds :
        /\ call = NoCall
        /\ call' = [op |-> "HasCapabilityWithCapacity", name |-> name, value |-> value]
        /\ result' = HasCapabilityWithCapacity(sku, name, value)
        /\ UNCHANGED <<sku, other, in>>

CallIsAvailable ==
    \E location \in QueryLocations :
        /\ call = NoCall
        /\ call' = [op |-> "IsAvailable", location |-> location]
        /\ result' = IsAvailable(sku, location)
        /\ UNCHANGED <<sku, other, in>>

CallIsRestricted ==
    \E location \in QueryLocations :
        /\ call = NoCall
        /\ call' = [op |-> "IsRestricted", location |-> location]
        /\ result' = IsRestricted(sku, location)
        /\ UNCHANGED <<sku, other, in>>

CallAvailabilityZones ==
    \E location \in QueryLocations :
        /\ call = NoCall
        /\ call' = [op |-> "AvailabilityZones", location |-> location]
        /\ result' = AvailabilityZones(sku, location)
        /\ UNCHANGED <<sku, other, in>>

CallIsResourceType ==
    \E t \in ResourceTypes :
        /\ call = NoCall
        /\ call' = [op |-> "IsResourceType", t |-> t]
        /\ result' = IsResourceType(sku, t)
        /\ UNCHANGED <<sku, other, in>>

CallGetLocation ==
    /\ call = NoCall
    /\ call' = [op |-> "GetLocation"]
    /\ result' = GetLocation(sku)
    /\ UNCHANGED <<sku, other, in>>

CallEqual ==
    /\ call = NoCall
    /\ call' = [op |-> "Equal"]
    /\ result' = Equal(sku, other)
    /\ UNCHANGED <<sku, other, in>>

CallWrap ==
    /\ call = NoCall
    /\ call' = [op |-> "Wrap"]
    /\ result' = Ret(Wrap(in))
    /\ UNCHANGED <<sku, other, in>>

Return ==
    /\ call # NoCall
    /\ call' = NoCall
    /\ result' = NoResult
    /\ UNCHANGED <<sku, other, in>>

(***************************************************************************)
(* Specifications, one per family of records.                              *)
(***************************************************************************)
InitCap ==
    /\ sku \in CapabilitySKUs
    /\ other = ZeroSKU
    /\ in = <<>>
    /\ call = NoCall
    /\ result = NoResult

NextCap ==
    \/ CallGetCapabilityIntegerQuantity
    \/ CallGetCapabilityFloatQuantity
    \/ CallHasCapability
    \/ CallHasCapabilityWithCapacity
    \/ Return

SpecCap == InitCap /\ [][NextCap]_vars

InitLoc ==
    /\ sku \in LocationSKUs
    /\ other = ZeroSKU
    /\ in = <<>>
    /\ call = NoCall
    /\ result = NoResult

NextLoc ==
    \/ CallIsAvailable
    \/ CallIsRestricted
    \/ CallAvailabilityZones
    \/ Return

SpecLoc == InitLoc /\ [][NextLoc]_vars

InitId ==
    /\ sku \in IdentitySKUs
    /\ other \in IdentitySKUs
    /\ in = <<>>
    /\ call = NoCall
    /\ result = NoResult

NextId ==
    \/ CallEqual
    \/ CallGetLocation
    \/ CallIsResourceType
    \/ Return

SpecId == InitId /\ [][NextId]_vars

InitWrap ==
    /\ sku = ZeroSKU
    /\ other = ZeroSKU
    /\ in \in SeqsUpTo(RawRecords, MaxWrap)
    /\ call = NoCall
    /\ result = NoResult

NextWrap ==
    \/ CallWrap
    \/ Return

SpecWrap == InitWrap /\ [][NextWrap]_vars

(***************************************************************************)
(* Reference readings of the literals, written out by hand: which names    *)
(* denote the same capability, which values are integers that fit int64,   *)
(* which values spell the supported token.                                 *)
(***************************************************************************)
SameSpelling(a, b) ==
    \/ a = b
    \/ {a, b} = {VCPUs, VCPUsLower}
    \/ {a, b} = {EastUS, EastUSDisplay}
    \/ {a, b} = {StandardD2, StandardD2Lower}

\* the capability values that are base-10 integers: the text, the integer,
\* and the integer as an int64 of the model
IntegerLiterals ==
    {<<Sixteen, 16, [neg |-> FALSE, digits |-> <<"1", "6">>]>>,
     <<MinusThree, -3, [neg |-> TRUE, digits |-> <<"3">>]>>}

IsIntegerLiteral(v) == \E p \in IntegerLiterals : p[1] = v

IntegerOf(v) == (CHOOSE p \in IntegerLiterals : p[1] = v)[2]

Int64Of(v) == (CHOOSE p \in IntegerLiterals : p[1] = v)[3]

MinusOneLiteral == [neg |-> TRUE, digits |-> <<"1">>]

\* the requested capacities of the calls, as integers
ThresholdOf(t) == IF t = [neg |-> FALSE, digits |-> <<"1", "6">>] THEN 16 ELSE 17

SupportedLiterals == {CapabilitySupported, TrueUpper}

Min(S) == CHOOSE i \in S : \A j \in S : i <= j

\* the entries of the capability list whose name is exactly n
ExactMatches(s, n) ==
    IF s.Capabilities.nil THEN {}
    ELSE {i \in 1..Len(s.Capabilities.val) :
            /\ ~s.Capabilities.val[i].Name.nil
            /\ s.Capabilities.val[i].Name.val = n}

\* the entries of the capability list whose name is n up to case and separators
NormalizedMatches(s, n) ==
    IF s.Capabilities.nil THEN {}
    ELSE {i \in 1..Len(s.Capabilities.val) :
            /\ ~s.Capabilities.val[i].Name.nil
            /\ SameSpelling(s.Capabilities.val[i].Name.val, n)}

(***************************************************************************)
(* C1: GetCapabilityIntegerQuantity(n) has one of four outcomes, decided   *)
(* by the first entry whose name is n: no such entry or no collection      *)
(* gives (-1, CapabilityNotFound{n}); a nil value gives                    *)
(* (-1, CapabilityValueNil{n}); a value that is no base-10 int64 gives     *)
(* (-1, CapabilityValueParse{n, value}); otherwise (integer, nil).  Later  *)
(* entries of the same name do not matter.                                 *)
(***************************************************************************)
C1_IntegerQuantityOutcomes ==
    call.op = "GetCapabilityIntegerQuantity" =>
        LET n == call.name
            M == ExactMatches(sku, n)
        IN  IF M = {} THEN result = RetErr(MinusOneLiteral, ErrCapabilityNotFound(n))
            ELSE LET v == sku.Capabilities.val[Min(M)].Value IN
                 IF v.nil THEN result = RetErr(MinusOneLiteral, ErrCapabilityValueNil(n))
                 ELSE IF ~IsIntegerLiteral(v.val)
                 THEN /\ result.val = MinusOneLiteral
                      /\ result.err.type = "ErrCapabilityValueParse"
                      /\ result.err.capability = n
                      /\ result.err.value = v.val
                 ELSE result = RetErr(Int64Of(v.val), NoErr)

\* two entries of the queried name, the first an integer, the second not
C1_Witness ==
    /\ call.op = "GetCapabilityIntegerQuantity"
    /\ ~sku.Capabilities.nil
    /\ Len(sku.Capabilities.val) = 2
    /\ sku.Capabilities.val[1] = [Name |-> Some(call.name), Value |-> Some(Sixteen)]
    /\ sku.Capabilities.val[2] = [Name |-> Some(call.name), Value |-> Some(CapabilityUnsupported)]
    /\ result = RetErr(Int64Of(Sixteen), NoErr)

(***************************************************************************)
(* C2: GetCapabilityIntegerQuantity and GetCapabilityFloatQuantity match   *)
(* names up to case and separators: two query names of the same            *)
(* normalized spelling get the same value and the same kind of error.      *)
(***************************************************************************)
Outcome(r) == <<r.val, r.err.type>>

C2_QuantityLookupNormalized ==
    /\ call.op = "GetCapabilityIntegerQuantity" =>
         \A n2 \in CapabilityNames :
            SameSpelling(call.name, n2) =>
                Outcome(result) = Outcome(GetCapabilityIntegerQuantity(sku, n2))
    /\ call.op = "GetCapabilityFloatQuantity" =>
         \A n2 \in CapabilityNames :
            SameSpelling(call.name, n2) =>
                Outcome(result) = Outcome(GetCapabilityFloatQuantity(sku, n2))

(***************************************************************************)
(* C3: HasCapability(n) is true iff an entry's name matches n up to case   *)
(* and separators and the value of the first such entry spells "True" up   *)
(* to case and separators; every other case is false.                      *)
(***************************************************************************)
C3_HasCapabilityFirstMatch ==
    call.op = "HasCapability" =>
        LET M == NormalizedMatches(sku, call.name) IN
        result = Ret(/\ M # {}
                     /\ ~sku.Capabilities.val[Min(M)].Value.nil
                     /\ sku.Capabilities.val[Min(M)].Value.val \in SupportedLiterals)

\* the first match says "False", a later match of another spelling says "TRUE"
C3_Witness ==
    /\ call = [op |-> "HasCapability", name |-> VCPUs]
    /\ ~sku.Capabilities.nil
    /\ Len(sku.Capabilities.val) = 2
    /\ sku.Capabilities.val[1] = [Name |-> Some(VCPUsLower), Value |-> Some(CapabilityUnsupported)]
    /\ sku.Capabilities.val[2] = [Name |-> Some(VCPUs), Value |-> Some(TrueUpper)]
    /\ result = Ret(FALSE)

(***************************************************************************)
(* C4: HasCapabilityWithCapacity(n, t) is (true, nil) iff the first entry  *)
(* matching n has a value that parses as an integer >= t; it is            *)
(* (false, nil) without a collection, without a match, or with a parsed    *)
(* value < t; it is (false, error) when the matched value does not parse.  *)
(***************************************************************************)
C4_CapacityThreshold ==
    call.op = "HasCapabilityWithCapacity" =>
        LET M == NormalizedMatches(sku, call.name)
            v == sku.Capabilities.val[Min(M)].Value
            parsed == M # {} /\ ~v.nil /\ IsIntegerLiteral(v.val)
            t == ThresholdOf(call.value)
        IN  /\ result = RetErr(TRUE, NoErr) <=> (parsed /\ IntegerOf(v.val) >= t)
            /\ (M = {} \/ (parsed /\ IntegerOf(v.val) < t))
                   => result = RetErr(FALSE, NoErr)
            /\ (M # {} /\ ~v.nil /\ ~IsIntegerLiteral(v.val))
                   => (result.val = FALSE /\ result.err # NoErr)

\* the capacity equals the threshold, under another spelling of the name
C4_Witness ==
    /\ call = [op |-> "HasCapabilityWithCapacity", name |-> VCPUsLower,
               value |-> Int64Of(Sixteen)]
    /\ ~sku.Capabilities.nil
    /\ Len(sku.Capabilities.val) >= 1
    /\ sku.Capabilities.val[1] = [Name |-> Some(VCPUs), Value |-> Some(Sixteen)]
    /\ result = RetErr(TRUE, NoErr)

\* the location-info entries whose location is L up to case and separators
LocationMatches(s, L) ==
    IF s.LocationInfo.nil THEN {}
    ELSE {i \in 1..Len(s.LocationInfo.val) :
            /\ ~s.LocationInfo.val[i].Location.nil
            /\ SameSpelling(s.LocationInfo.val[i].Location.val, L)}

\* the restrictions whose values list L up to case and separators
RestrictionsListing(s, L) ==
    IF s.Restrictions.nil THEN {}
    ELSE {j \in 1..Len(s.Restrictions.val) :
            /\ ~s.Restrictions.val[j].Values.nil
            /\ \E k \in 1..Len(s.Restrictions.val[j].Values.val) :
                  SameSpelling(s.Restrictions.val[j].Values.val[k], L)}

HasLocationRestriction(s) ==
    /\ ~s.Restrictions.nil
    /\ \E j \in 1..Len(s.Restrictions.val) : s.Restrictions.val[j].Type = Location

(***************************************************************************)
(* C5: IsAvailable(L) is true iff some location-info entry's location      *)
(* matches L and the record has no Location restriction at all; with a     *)
(* Location restriction it is false for every L.                           *)
(***************************************************************************)
C5_IsAvailable ==
    call.op = "IsAvailable" =>
        /\ result = Ret(TRUE) <=>
              (LocationMatches(sku, call.location) # {} /\ ~HasLocationRestriction(sku))
        /\ HasLocationRestriction(sku) => result = Ret(FALSE)

(***************************************************************************)
(* C6: when a location-info entry matches L, AvailabilityZones(L) is nil   *)
(* if a Location restriction lists L, and otherwise the zones listed for L *)
(* minus the restriction-info zones of the other restrictions listing L.   *)
(***************************************************************************)
ZonesListed(s, L) ==
    UNION {IF s.LocationInfo.val[i].Zones.nil THEN {}
           ELSE Range(s.LocationInfo.val[i].Zones.val) : i \in LocationMatches(s, L)}

ZonesRestricted(s, L) ==
    UNION {LET r == s.Restrictions.val[j] IN
           IF r.Type = Location \/ r.RestrictionInfo.nil \/ r.RestrictionInfo.val.Zones.nil
           THEN {}
           ELSE Range(r.RestrictionInfo.val.Zones.val) : j \in RestrictionsListing(s, L)}

AvailabilityZonesExpected(s, L) ==
    IF \E j \in RestrictionsListing(s, L) : s.Restrictions.val[j].Type = Location
    THEN Ret(Nil)
    ELSE Ret(Some(ZonesListed(s, L) \ ZonesRestricted(s, L)))

C6_AvailabilityZones ==
    (call.op = "AvailabilityZones" /\ LocationMatches(sku, call.location) # {}) =>
        result = AvailabilityZonesExpected(sku, call.location)

(***************************************************************************)
(* C7: no accessor panics on a record with absent fields: every call       *)
(* returns a value.                                                        *)
(***************************************************************************)
C7_NoPanic == ~result.panic

(***************************************************************************)
(* C10: IsRestricted(L) is true iff some Location restriction lists L      *)
(* among its values, and then IsAvailable(L) is false.                     *)
(***************************************************************************)
C10_RestrictedNotAvailable ==
    call.op = "IsRestricted" =>
        /\ result = Ret(TRUE) <=>
              \E j \in RestrictionsListing(sku, call.location) :
                  sku.Restrictions.val[j].Type = Location
        /\ result = Ret(TRUE) => IsAvailable(sku, call.location) = Ret(FALSE)

\* the two accessors are never both true: where L is restricted,
\* IsAvailable(L) returns false or does not return
C10_NeverBothTrue ==
    /\ (call.op = "IsRestricted" /\ result = Ret(TRUE))
           => IsAvailable(sku, call.location) \in {Ret(FALSE), Panic}
    /\ (call.op = "IsAvailable" /\ result = Ret(TRUE))
           => IsRestricted(sku, call.location) = Ret(FALSE)

\* L is restricted and IsAvailable(L) does not return
C10_RestrictedPanics ==
    /\ call.op = "IsRestricted"
    /\ result = Ret(TRUE)
    /\ IsAvailable(sku, call.location) = Panic

\* the converse fails: L is neither available nor restricted
C10_ConverseFails ==
    /\ call.op = "IsAvailable"
    /\ result = Ret(FALSE)
    /\ LocationMatches(sku, call.location) # {}
    /\ IsRestricted(sku, call.location) = Ret(FALSE)

(***************************************************************************)
(* C8: Equal(s, o) is true iff the resource types match, the names match,  *)
(* and both records have exactly one location and those locations match.   *)
(***************************************************************************)
SameOptional(a, b) ==
    \/ a.nil /\ b.nil
    \/ ~a.nil /\ ~b.nil /\ SameSpelling(a.val, b.val)

SingleLocation(s) == ~s.Locations.nil /\ Len(s.Locations.val) = 1

C8_EqualStructural ==
    call.op = "Equal" =>
        result = Ret(/\ SameOptional(sku.ResourceType, other.ResourceType)
                     /\ SameOptional(sku.Name, other.Name)
                     /\ SingleLocation(sku)
                     /\ SingleLocation(other)
                     /\ SameSpelling(sku.Locations.val[1], other.Locations.val[1]))

(***************************************************************************)
(* C9: Wrap returns as many records as it is given, in the same order,     *)
(* each with the field values of the raw record at the same position.      *)
(***************************************************************************)
C9_WrapOneToOne ==
    call.op = "Wrap" =>
        /\ Len(result.val) = Len(in)
        /\ \A i \in 1..Len(in) :
              /\ result.val[i].Name = in[i].Name
              /\ result.val[i].ResourceType = in[i].ResourceType
              /\ result.val[i].Locations = in[i].Locations
              /\ result.val[i].Capabilities = in[i].Capabilities
              /\ result.val[i].LocationInfo = in[i].LocationInfo
              /\ result.val[i].Restrictions = in[i].Restrictions

\* two different raw records, one of them with every field absent
C9_Witness ==
    /\ call.op = "Wrap"
    /\ Len(in) >= 2
    /\ in[1] # ZeroSKU
    /\ in[2] = ZeroSKU
    /\ Len(result.val) = Len(in)
    /\ result.val[1].Name = in[1].Name

====
